---- MODULE Spec2Model ----
(***************************************************************************)
(* Model of project.py: the transcript acquisition fallback                *)
(* (get_transcript), the chunked summarizer (summarize_text) and the GUI   *)
(* handler that drives both (YouTubeSummarizerApp.run_summary).            *)
(*                                                                         *)
(* Python strings are sequences of one-character strings.  A URL is a      *)
(* sequence of lexical tokens ("https://", a host label, "/", "?", ...).   *)
(* None is a sentinel sequence.  Glyphs outside ASCII are written "#"      *)
(* (heading marker) and "*" (bullet marker).                               *)
(***************************************************************************)
EXTENDS Integers, Sequences, FiniteSets, TLC

VARIABLES
    pc,                \* position of the one synchronous handler run
    runs,              \* clicks on the start button so far
    url_input,         \* text of the URL field at the last click
    url,               \* run_summary: url (after strip)
    status,            \* text of status_label
    shown,             \* messages passed to update_status during this run
    fileExists,        \* audio.mp3 is on disk
    created,           \* audio.mp3 was written during this get_transcript call
    nRemote,           \* calls of YouTubeTranscriptApi.get_transcript this call
    nDownload,         \* calls of download_audio this call
    nWhisper,          \* calls of get_transcript_whisper this call
    remoteOutcome,     \* what the hosted transcript service did
    fetched,           \* value returned by get_transcript_youtube
    transcript,        \* get_transcript / run_summary: transcript
    gtState,           \* get_transcript: notcalled, running, returned, raised
    sumState,          \* summarize_text: notcalled, running, returned, raised
    raised,            \* the exception in flight, "none" when there is none
    chunks,            \* summarize_text: chunks
    nModel,            \* inputs handed to the summarization model
    full_summary,      \* summarize_text: full_summary
    summary,           \* value returned by summarize_text
    transcript_output, \* text of the transcript field
    summary_output,    \* text of the summary field
    summaryWritten     \* summary_output.setText was called during this run

vars == <<pc, runs, url_input, url, status, shown, fileExists, created, nRemote,
          nDownload, nWhisper, remoteOutcome, fetched, transcript, gtState,
          sumState, raised, chunks, nModel, full_summary, summary,
          transcript_output, summary_output, summaryWritten>>

(* ------------------------------ bounds --------------------------------- *)

\* number of clicks on the start button that the model follows
MaxRuns == 2

\* largest number of words in a generated summary sentence
MaxWords == 8

(* ------------------------- program constants --------------------------- *)

\* default of the max_chunk parameter of summarize_text
max_chunk == 1000

\* a line is kept when len(line.split()) > 7
MinWords == 7

\* Python None: a sentinel that is no string of the text alphabet
None == <<"None">>

(* --------------------------- Python strings ---------------------------- *)

Whitespace == {" ", "\n", "\t"}

\* the regular expression class [A-Z], restricted to the letters texts use
Upper == {"A"}

Min(a, b) == IF a < b THEN a ELSE b

\* str.strip(chars): drop the characters of cs at both ends
RECURSIVE LStrip(_, _)
LStrip(s, cs) ==
    IF s = <<>> THEN <<>>
    ELSE IF Head(s) \in cs THEN LStrip(Tail(s), cs) ELSE s

RECURSIVE RStrip(_, _)
RStrip(s, cs) ==
    IF s = <<>> THEN <<>>
    ELSE IF s[Len(s)] \in cs THEN RStrip(SubSeq(s, 1, Len(s) - 1), cs) ELSE s

StripChars(s, cs) == RStrip(LStrip(s, cs), cs)

\* str.strip()
Strip(s) == StripChars(s, Whitespace)

\* len(s.split()): the number of maximal runs of non-whitespace characters
WordCount(s) ==
    Cardinality({i \in 1..Len(s) :
                    /\ s[i] \notin Whitespace
                    /\ (i = 1 \/ s[i-1] \in Whitespace)})

\* " ".join(parts)
RECURSIVE JoinSpace(_)
JoinSpace(parts) ==
    IF parts = <<>> THEN <<>>
    ELSE IF Len(parts) = 1 THEN parts[1]
    ELSE parts[1] \o <<" ">> \o JoinSpace(Tail(parts))

\* bool(x) of a value that is None or a string
Truthy(x) == x # None /\ x # <<>>

(* ----------------------------- URL Parser ------------------------------ *)

\* position of the first token of s (at or after i) that lies in stop,
\* Len(s)+1 when there is none
RECURSIVE FirstIn(_, _, _)
FirstIn(s, i, stop) ==
    IF i > Len(s) THEN Len(s) + 1
    ELSE IF s[i] \in stop THEN i ELSE FirstIn(s, i + 1, stop)

\* urllib.parse.urlparse: netloc is present only after a scheme and "//"
urlparse(u) ==
    LET hasScheme == u # <<>> /\ Head(u) = "https://"
        rest      == IF hasScheme THEN Tail(u) ELSE u
        endNet    == IF hasScheme THEN FirstIn(rest, 1, {"/", "?"}) ELSE 1
        q         == FirstIn(rest, endNet, {"?"})
    IN  [netloc |-> SubSeq(rest, 1, endNet - 1),
         path   |-> SubSeq(rest, endNet, q - 1),
         query  |-> SubSeq(rest, q + 1, Len(rest))]

\* split a token sequence at every occurrence of sep
RECURSIVE SplitOn(_, _)
SplitOn(s, sep) ==
    LET i == FirstIn(s, 1, {sep})
    IN  IF i > Len(s) THEN <<s>>
        ELSE <<SubSeq(s, 1, i - 1)>> \o SplitOn(SubSeq(s, i + 1, Len(s)), sep)

\* urllib.parse.parse_qs(query).get(name, [None])[0]: the first non-blank
\* value of the field; fields without "=" or with a blank value are dropped
RECURSIVE FirstValue(_, _)
FirstValue(fields, name) ==
    IF fields = <<>> THEN None
    ELSE LET f  == Head(fields)
             eq == FirstIn(f, 1, {"="})
             k  == SubSeq(f, 1, eq - 1)
             v  == SubSeq(f, eq + 1, Len(f))
         IN  IF eq <= Len(f) /\ v # <<>> /\ k = <<name>>
             THEN v
             ELSE FirstValue(Tail(fields), name)

parse_qs_get(query, name) == FirstValue(SplitOn(query, "&"), name)

\* 'x' in parsed.netloc
InNetloc(host, netloc) == \E i \in 1..Len(netloc) : netloc[i] = host

\* variant: the short form keeps the leading separator (path[0:])
get_video_id_keepslash(u) ==
    LET parsed == urlparse(u)
    IN  IF InNetloc("youtu.be", parsed.netloc)
        THEN parsed.path
        ELSE IF InNetloc("youtube.com", parsed.netloc)
        THEN parse_qs_get(parsed.query, "v")
        ELSE None

get_video_id(u) ==
    LET parsed == urlparse(u)
    IN  IF InNetloc("youtu.be", parsed.netloc)
        THEN SubSeq(parsed.path, 2, Len(parsed.path))
        ELSE IF InNetloc("youtube.com", parsed.netloc)
        THEN parse_qs_get(parsed.query, "v")
        ELSE None

(* ----------------------------- Summarizer ------------------------------ *)

\* variant: the number of chunks is len(text) // mc
NumChunksFloor(text, mc) == Len(text) \div mc

\* the number of start offsets of range(0, len(text), mc)
NumChunks(text, mc) ==
    Cardinality({i \in 0..(Len(text) - 1) : i % mc = 0})

\* [text[i:i+mc] for i in range(0, len(text), mc)]
Chunks(text, mc) ==
    [k \in 1..NumChunks(text, mc) |->
        SubSeq(text, (k - 1) * mc + 1, Min(k * mc, Len(text)))]

\* a match of \. (?=[A-Z]) starts at position i of s
SplitAt(s, i) ==
    /\ i + 2 <= Len(s)
    /\ s[i] = "."
    /\ s[i+1] = " "
    /\ s[i+2] \in Upper

\* re.split(r'\. (?=[A-Z])', s), scanning for the leftmost match from i on
RECURSIVE ReSplitFrom(_, _)
ReSplitFrom(s, i) ==
    IF i > Len(s) THEN <<s>>
    ELSE IF SplitAt(s, i)
    THEN <<SubSeq(s, 1, i - 1)>> \o ReSplitFrom(SubSeq(s, i + 2, Len(s)), 1)
    ELSE ReSplitFrom(s, i + 1)

ReSplit(s) == ReSplitFrom(s, 1)

\* current_heading, with "#" for its leading glyph
Heading == <<"#", " ", "K", "e", "y", " ", "P", "o", "i", "n", "t", "s">>

\* the bullet line f"* {line.strip('.')}.\n"
Bullet(line) == <<"*", " ">> \o StripChars(line, {"."}) \o <<".", "\n">>

\* variant: the filter keeps lines of exactly 7 words too (>= for >)
KeepsAtLeast(line) == line # <<>> /\ WordCount(line) >= MinWords

\* a stripped line is emitted when it is non-empty and has more than 7 words
Keeps(line) == line # <<>> /\ WordCount(line) > MinWords

\* the loop over sections: what it appends to bullet_summary
RECURSIVE BulletLines(_)
BulletLines(sections) ==
    IF sections = <<>> THEN <<>>
    ELSE LET line == Strip(Head(sections))
         IN  IF Keeps(line)
             THEN Bullet(line) \o BulletLines(Tail(sections))
             ELSE BulletLines(Tail(sections))

\* bullet_summary as returned for a given full_summary
FormatSummary(fs) == Heading \o <<":", "\n">> \o BulletLines(ReSplit(fs))

(* ------------------------------- inputs -------------------------------- *)

Short == <<"https://", "youtu.be">>
Long  == <<"https://", "www.", "youtube.com", "/", "watch">>

\* what the user may have typed into url_input
UrlInputs ==
    { <<>>,
      <<" ">>,
      Short \o <<"/", "id1">>,
      <<" ">> \o Short \o <<"/", "id1", " ">>,
      Short \o <<"/">>,
      Short,
      Long \o <<"?", "v", "=", "id1", "&", "x", "=", "1">>,
      Long \o <<"?", "x", "=", "1", "&", "v", "=", "id2">>,
      Long \o <<"?", "x", "=", "1">>,
      Long \o <<"?", "v", "=">>,
      Long,
      <<"https://", "example.com", "/", "id1">>,
      <<"youtu.be", "/", "id1">> }

\* the text alphabet: a lowercase letter, an uppercase letter, a period and
\* a space
Sentence9 == <<"A", " ", "a", " ", "a", " ", "a", " ", "a", " ", "a", " ",
               "a", " ", "a", " ", "a", ".">>

\* the segment lists the hosted transcript service may answer with
RemoteTranscripts ==
    { <<>>,
      << <<>> >>,
      << <<"a">> >>,
      << <<"A", "a">>, <<"a", ".">> >> }

\* the ways the hosted transcript service may fail
RemoteFailures == {"NoCaptions", "NetworkError", "Malformed", "RateLimited"}

\* the outcomes of yt_dlp's download and post-processing
DownloadOutcomes == {"ok", "fail_before_write", "fail_after_write"}

\* the texts the speech model may decode
WhisperTexts == { <<>>, <<"a", " ", "a">> }

\* the model outputs followed inside a run of the GUI handler
RunOutputs == { <<"A", ".">>, Sentence9 }

(* ---------------------------- GUI handler ------------------------------ *)

MsgFetching    == "Fetching transcript..."
MsgRemote      == "Transcript from YouTube API."
MsgFallback    == "YouTube transcript unavailable. Using Whisper..."
MsgLocal       == "Transcript generated using Whisper."
MsgSummarizing == "Summarizing..."
MsgModel       == "Summarizing with Hugging Face model..."
MsgFormatting  == "Formatting summary..."
MsgComplete    == "Summary complete."
MsgDone        == "Done."
MsgFailed      == "Failed."
MsgWaiting     == "Waiting for input..."

\* update_status(msg): the label shows msg; shown records the delivery
update_status(msg) ==
    /\ status' = msg
    /\ shown' = Append(shown, msg)

\* the values of a handler run that is not in progress
Cleared ==
    /\ url = <<>>
    /\ shown = <<>>
    /\ created = FALSE
    /\ nRemote = 0
    /\ nDownload = 0
    /\ nWhisper = 0
    /\ remoteOutcome = "none"
    /\ fetched = None
    /\ transcript = None
    /\ gtState = "notcalled"
    /\ sumState = "notcalled"
    /\ raised = "none"
    /\ chunks = <<>>
    /\ nModel = 0
    /\ full_summary = None
    /\ summary = None
    /\ summaryWritten = FALSE

\* the locals of run_summary and of its callees are dropped
ClearLocals ==
    /\ url' = <<>>
    /\ shown' = <<>>
    /\ created' = FALSE
    /\ nRemote' = 0
    /\ nDownload' = 0
    /\ nWhisper' = 0
    /\ remoteOutcome' = "none"
    /\ fetched' = None
    /\ transcript' = None
    /\ gtState' = "notcalled"
    /\ sumState' = "notcalled"
    /\ raised' = "none"
    /\ chunks' = <<>>
    /\ nModel' = 0
    /\ full_summary' = None
    /\ summary' = None
    /\ summaryWritten' = FALSE

Init ==
    /\ pc = "idle"
    /\ runs = 0
    /\ url_input = <<>>
    /\ status = MsgWaiting
    /\ fileExists = FALSE
    /\ transcript_output = <<>>
    /\ summary_output = <<>>
    /\ Cleared

\* an exception leaves the callee and travels to the handler of run_summary
Raise(kind) ==
    /\ raised' = kind
    /\ pc' = "except"

\* run_summary up to the call of get_transcript
Start ==
    /\ pc = "idle"
    /\ runs < MaxRuns
    /\ runs' = runs + 1
    /\ \E text \in UrlInputs :
         LET u == Strip(text)
         IN  /\ url_input' = text
             /\ IF u = <<>>
                THEN UNCHANGED <<pc, url, status, shown, gtState>>
                ELSE /\ url' = u
                     /\ update_status(MsgFetching)
                     /\ gtState' = "running"
                     /\ pc' = "gt_fetch"
    /\ UNCHANGED <<fileExists, created, nRemote, nDownload, nWhisper,
                   remoteOutcome, fetched, transcript, sumState, raised,
                   chunks, nModel, full_summary, summary, transcript_output,
                   summary_output, summaryWritten>>

\* variant: only the missing-captions error is caught
CaughtOnlyNoCaptions(f) == f = "NoCaptions"

\* except Exception: every failure of the service is caught
Caught(f) == f \in RemoteFailures

\* get_transcript_youtube(url), called from get_transcript
GetTranscriptYoutube ==
    /\ pc = "gt_fetch"
    /\ LET video_id == get_video_id(url)
       IN  IF ~Truthy(video_id)
           THEN /\ Raise("ValueError")
                /\ gtState' = "raised"
                /\ UNCHANGED <<nRemote, remoteOutcome, fetched>>
           ELSE /\ nRemote' = nRemote + 1
                /\ \/ \E segs \in RemoteTranscripts :
                        /\ remoteOutcome' = "text"
                        /\ fetched' = JoinSpace(segs)
                        /\ pc' = "gt_branch"
                        /\ UNCHANGED <<gtState, raised>>
                   \/ \E f \in RemoteFailures :
                        /\ remoteOutcome' = f
                        /\ IF Caught(f)
                           THEN /\ fetched' = None
                                /\ pc' = "gt_branch"
                                /\ UNCHANGED <<gtState, raised>>
                           ELSE /\ Raise(f)
                                /\ gtState' = "raised"
                                /\ UNCHANGED fetched
    /\ UNCHANGED <<runs, url_input, url, status, shown, fileExists, created,
                   nDownload, nWhisper, transcript, sumState, chunks, nModel,
                   full_summary, summary, transcript_output, summary_output,
                   summaryWritten>>

\* variant: the test is inverted (if not transcript)
HasTranscriptInverted(t) == ~Truthy(t)

\* if transcript:
HasTranscript(t) == Truthy(t)

\* get_transcript: the test of the fetched transcript
GtBranch ==
    /\ pc = "gt_branch"
    /\ IF HasTranscript(fetched)
       THEN /\ update_status(MsgRemote)
            /\ transcript' = fetched
            /\ gtState' = "returned"
            /\ pc' = "gt_returned"
       ELSE /\ update_status(MsgFallback)
            /\ pc' = "gt_download"
            /\ UNCHANGED <<transcript, gtState>>
    /\ UNCHANGED <<runs, url_input, url, fileExists, created, nRemote, nDownload,
                   nWhisper, remoteOutcome, fetched, sumState, raised, chunks,
                   nModel, full_summary, summary, transcript_output,
                   summary_output, summaryWritten>>

\* variant: a failed download is attempted a second time before giving up
DownloadAudioRetry ==
    /\ pc = "gt_download"
    /\ \E o \in {"ok", "fail_before_write", "fail_after_write"} :
         /\ IF o = "fail_before_write"
            THEN UNCHANGED <<fileExists, created>>
            ELSE fileExists' = TRUE /\ created' = TRUE
         /\ IF o = "ok"
            THEN /\ nDownload' = nDownload + 1
                 /\ pc' = "gt_whisper"
                 /\ UNCHANGED <<raised, gtState>>
            ELSE /\ nDownload' = nDownload + 2
                 /\ Raise("RetrievalError")
                 /\ gtState' = "raised"
    /\ UNCHANGED <<runs, url_input, url, status, shown, nRemote, nWhisper,
                   remoteOutcome, fetched, transcript, sumState, chunks,
                   nModel, full_summary, summary, transcript_output,
                   summary_output, summaryWritten>>

\* download_audio(url), called from get_transcript
DownloadAudio ==
    /\ pc = "gt_download"
    /\ nDownload' = nDownload + 1
    /\ \E o \in DownloadOutcomes :
         /\ IF o = "fail_before_write"
            THEN UNCHANGED <<fileExists, created>>
            ELSE fileExists' = TRUE /\ created' = TRUE
         /\ IF o = "ok"
            THEN pc' = "gt_whisper" /\ UNCHANGED <<raised, gtState>>
            ELSE Raise("RetrievalError") /\ gtState' = "raised"
    /\ UNCHANGED <<runs, url_input, url, status, shown, nRemote, nWhisper, remoteOutcome,
                   fetched, transcript, sumState, chunks, nModel,
                   full_summary, summary, transcript_output, summary_output,
                   summaryWritten>>

\* get_transcript_whisper(audio_path), called from get_transcript
GetTranscriptWhisper ==
    /\ pc = "gt_whisper"
    /\ nWhisper' = nWhisper + 1
    /\ \/ \E text \in WhisperTexts :
            /\ transcript' = text
            /\ pc' = "gt_remove"
            /\ UNCHANGED <<raised, gtState>>
       \/ /\ Raise("TranscriptionError")
          /\ gtState' = "raised"
          /\ UNCHANGED transcript
    /\ UNCHANGED <<runs, url_input, url, status, shown, fileExists, created, nRemote,
                   nDownload, remoteOutcome, fetched, sumState, chunks,
                   nModel, full_summary, summary, transcript_output,
                   summary_output, summaryWritten>>

\* variant: the call of os.remove is missing
RemoveAndReturnKeepsFile ==
    /\ pc = "gt_remove"
    /\ update_status(MsgLocal)
    /\ gtState' = "returned"
    /\ pc' = "gt_returned"
    /\ UNCHANGED <<runs, url_input, url, fileExists, created, nRemote,
                   nDownload, nWhisper, remoteOutcome, fetched, transcript,
                   sumState, raised, chunks, nModel, full_summary, summary,
                   transcript_output, summary_output, summaryWritten>>

\* get_transcript: os.remove, the last status event and the return
RemoveAndReturn ==
    /\ pc = "gt_remove"
    /\ fileExists' = FALSE
    /\ update_status(MsgLocal)
    /\ gtState' = "returned"
    /\ pc' = "gt_returned"
    /\ UNCHANGED <<runs, url_input, url, created, nRemote, nDownload, nWhisper,
                   remoteOutcome, fetched, transcript, sumState, raised,
                   chunks, nModel, full_summary, summary, transcript_output,
                   summary_output, summaryWritten>>

\* run_summary between the two stages
ShowTranscript ==
    /\ pc = "gt_returned"
    /\ transcript_output' = transcript
    /\ update_status(MsgSummarizing)
    /\ sumState' = "running"
    /\ pc' = "sum_start"
    /\ UNCHANGED <<runs, url_input, url, fileExists, created, nRemote, nDownload,
                   nWhisper, remoteOutcome, fetched, transcript, gtState,
                   raised, chunks, nModel, full_summary, summary,
                   summary_output, summaryWritten>>

\* summarize_text: first status event, pipeline construction, chunking
SummarizeStart ==
    /\ pc = "sum_start"
    /\ update_status(MsgModel)
    /\ \/ /\ chunks' = Chunks(transcript, max_chunk)
          /\ pc' = "sum_model"
          /\ UNCHANGED <<raised, sumState>>
       \/ /\ Raise("SummarizationError")
          /\ sumState' = "raised"
          /\ UNCHANGED chunks
    /\ UNCHANGED <<runs, url_input, url, fileExists, created, nRemote, nDownload,
                   nWhisper, remoteOutcome, fetched, transcript, gtState,
                   nModel, full_summary, summary, transcript_output,
                   summary_output, summaryWritten>>

\* summarize_text: the model runs over every chunk, the outputs are joined
SummarizeModel(Outputs) ==
    /\ pc = "sum_model"
    /\ nModel' = Len(chunks)
    /\ \/ \E summaries \in [1..Len(chunks) -> Outputs] :
            /\ full_summary' = JoinSpace(summaries)
            /\ update_status(MsgFormatting)
            /\ pc' = "sum_format"
            /\ UNCHANGED <<raised, sumState>>
       \/ /\ Raise("SummarizationError")
          /\ sumState' = "raised"
          /\ UNCHANGED <<full_summary, status, shown>>
    /\ UNCHANGED <<runs, url_input, url, fileExists, created, nRemote, nDownload,
                   nWhisper, remoteOutcome, fetched, transcript, gtState,
                   chunks, summary, transcript_output, summary_output,
                   summaryWritten>>

\* summarize_text: the bullet formatting, the last status event, the return
SummarizeFormat ==
    /\ pc = "sum_format"
    /\ summary' = FormatSummary(full_summary)
    /\ update_status(MsgComplete)
    /\ sumState' = "returned"
    /\ pc' = "sum_returned"
    /\ UNCHANGED <<runs, url_input, url, fileExists, created, nRemote, nDownload,
                   nWhisper, remoteOutcome, fetched, transcript, gtState,
                   raised, chunks, nModel, full_summary, transcript_output,
                   summary_output, summaryWritten>>

\* run_summary after summarize_text returned
ShowSummary ==
    /\ pc = "sum_returned"
    /\ summary_output' = summary
    /\ summaryWritten' = TRUE
    /\ update_status(MsgDone)
    /\ pc' = "end"
    /\ UNCHANGED <<runs, url_input, url, fileExists, created, nRemote, nDownload,
                   nWhisper, remoteOutcome, fetched, transcript, gtState,
                   sumState, raised, chunks, nModel, full_summary, summary,
                   transcript_output>>

\* variant: "Done." is shown after the except clause as well
HandleExceptionThenDone ==
    /\ pc = "except"
    /\ status' = MsgDone
    /\ shown' = shown \o <<MsgFailed, MsgDone>>
    /\ pc' = "end"
    /\ UNCHANGED <<runs, url_input, url, fileExists, created, nRemote,
                   nDownload, nWhisper, remoteOutcome, fetched, transcript,
                   gtState, sumState, raised, chunks, nModel, full_summary,
                   summary, transcript_output, summary_output,
                   summaryWritten>>

\* run_summary: the except clause
HandleException ==
    /\ pc = "except"
    /\ update_status(MsgFailed)
    /\ pc' = "end"
    /\ UNCHANGED <<runs, url_input, url, fileExists, created, nRemote, nDownload,
                   nWhisper, remoteOutcome, fetched, transcript, gtState,
                   sumState, raised, chunks, nModel, full_summary, summary,
                   transcript_output, summary_output, summaryWritten>>

\* run_summary returns to the event loop; its locals are gone
Return ==
    /\ pc = "end"
    /\ pc' = "idle"
    /\ ClearLocals
    /\ UNCHANGED <<runs, url_input, status, fileExists, transcript_output,
                   summary_output>>

Next ==
    \/ Start
    \/ GetTranscriptYoutube
    \/ GtBranch
    \/ DownloadAudio
    \/ GetTranscriptWhisper
    \/ RemoveAndReturn
    \/ ShowTranscript
    \/ SummarizeStart
    \/ SummarizeModel(RunOutputs)
    \/ SummarizeFormat
    \/ ShowSummary
    \/ HandleException
    \/ Return

Spec == Init /\ [][Next]_vars

(* ------------------- summarize_text called directly -------------------- *)

\* n words separated by single spaces, the first one capitalised when cap
WordsOf(n, cap) ==
    [i \in 1..(2 * n - 1) |->
        IF i % 2 = 0 THEN " " ELSE IF i = 1 /\ cap THEN "A" ELSE "a"]

Leads  == { <<>>, <<".", " ">> }
Trails == { <<>>, <<".">>, <<" ", ".">> }

\* the word counts of generated sentences: one word, and the counts around
\* the threshold of the filter
WordCounts == {1} \cup (MinWords..MaxWords)

\* the outputs of the summarization model for one chunk
SumOutputs ==
    { <<>> } \cup
    { lead \o WordsOf(n, cap) \o trail :
        lead \in Leads, n \in WordCounts, cap \in BOOLEAN, trail \in Trails }

\* the lengths of the texts handed to summarize_text
SumLengths == {0, 1, max_chunk - 1, max_chunk, max_chunk + 1, 2 * max_chunk}

SumTexts == { [i \in 1..n |-> "a"] : n \in SumLengths }

\* a caller other than the GUI enters summarize_text with some text
InitSum ==
    /\ pc = "sum_start"
    /\ runs = 0
    /\ url_input = <<>>
    /\ status = MsgWaiting
    /\ fileExists = FALSE
    /\ transcript_output = <<>>
    /\ summary_output = <<>>
    /\ url = <<>>
    /\ shown = <<>>
    /\ created = FALSE
    /\ nRemote = 0
    /\ nDownload = 0
    /\ nWhisper = 0
    /\ remoteOutcome = "none"
    /\ fetched = None
    /\ transcript \in SumTexts
    /\ gtState = "notcalled"
    /\ sumState = "running"
    /\ raised = "none"
    /\ chunks = <<>>
    /\ nModel = 0
    /\ full_summary = None
    /\ summary = None
    /\ summaryWritten = FALSE

NextSum ==
    \/ SummarizeStart
    \/ SummarizeModel(SumOutputs)
    \/ SummarizeFormat

SpecSum == InitSum /\ [][NextSum]_vars

(* ======================== checked properties =========================== *)

\* the status events get_transcript delivered to the callback, in order
gtEvents == SelectSeq(shown, LAMBDA m : m \in {MsgRemote, MsgFallback, MsgLocal})

\* the status events summarize_text delivered to the callback, in order
sumEvents ==
    SelectSeq(shown, LAMBDA m : m \in {MsgModel, MsgFormatting, MsgComplete})

\* the call of get_transcript has ended, by return or by exception
GtEnded == gtState \in {"returned", "raised"}

Occurs(m, seq) == \E i \in 1..Len(seq) : seq[i] = m

(* ------------------------------- C1 ------------------------------------ *)

\* C1: when a call of get_transcript has ended, by return or by an
\* exception of download_audio or get_transcript_whisper, the temporary
\* audio file, if the call created it, does not exist.
C1_TempFileRemovedOnEveryExit ==
    (GtEnded /\ created) => ~fileExists

(* ------------------------------- C2 ------------------------------------ *)

\* C2 as stated: whenever get_transcript_youtube returned any string (not
\* None), get_transcript returns that string and invokes neither
\* download_audio nor get_transcript_whisper.
C2_AnyTextReturnedUnchanged ==
    (remoteOutcome = "text" /\ pc # "gt_branch")
        => /\ gtState = "returned"
           /\ transcript = fetched
           /\ nDownload = 0
           /\ nWhisper = 0

\* C2 amended: whenever get_transcript_youtube returned a non-empty string,
\* get_transcript returns that string unchanged and invokes neither
\* download_audio nor get_transcript_whisper; the empty string is treated
\* like None and takes the fallback.
C2_NonEmptyTextReturnedUnchanged ==
    /\ (remoteOutcome = "text" /\ fetched # <<>> /\ pc # "gt_branch")
          => /\ gtState = "returned"
             /\ transcript = fetched
             /\ nDownload = 0
             /\ nWhisper = 0
             /\ ~Occurs(MsgFallback, shown)
    /\ (remoteOutcome = "text" /\ fetched = <<>> /\ pc # "gt_branch")
          => /\ Occurs(MsgFallback, shown)
             /\ (pc = "gt_download" \/ nDownload = 1)

\* C2 case: a non-empty remote text was fetched and get_transcript returned
C2_Witness ==
    /\ pc = "gt_returned"
    /\ remoteOutcome = "text"
    /\ fetched # <<>>
    /\ gtState = "returned"

(* ------------------------------- C3 ------------------------------------ *)

\* the remote fetcher was queried and returned None
RemoteAbsent == nRemote = 1 /\ remoteOutcome \in RemoteFailures

\* C3 as stated: when the remote fetcher returned None, a call of
\* get_transcript that has ended has invoked download_audio exactly once
\* and get_transcript_whisper exactly once.
C3_BothLocalStepsOnce ==
    (GtEnded /\ RemoteAbsent) => (nDownload = 1 /\ nWhisper = 1)

\* C3 amended: when the remote fetcher returned None, a call of
\* get_transcript that has ended has invoked download_audio exactly once,
\* and get_transcript_whisper exactly once if download_audio returned and
\* not at all if download_audio raised; neither step is ever repeated.
C3_LocalStepsAtMostOnce ==
    /\ nDownload <= 1
    /\ nWhisper <= 1
    /\ (GtEnded /\ RemoteAbsent)
          => /\ nDownload = 1
             /\ nWhisper = (IF raised = "RetrievalError" THEN 0 ELSE 1)

\* C3 case: the fallback ended in failure because download_audio raised
C3_Witness ==
    /\ GtEnded
    /\ RemoteAbsent
    /\ raised = "RetrievalError"
    /\ nDownload = 1

(* ------------------------------- C4 ------------------------------------ *)

\* the URLs without a usable identifier: short form with an empty path,
\* long form without a v parameter or with a blank one, another host, and
\* a short-form text without a scheme
InvalidUrls ==
    { Short \o <<"/">>,
      Short,
      Long \o <<"?", "x", "=", "1">>,
      Long \o <<"?", "v", "=">>,
      Long,
      <<"https://", "example.com", "/", "id1">>,
      <<"youtu.be", "/", "id1">> }

\* C4: a call of get_transcript with a URL that has no non-empty video
\* identifier ends with ValueError, never queries the transcript service,
\* never falls back to download or transcription, and never creates the
\* temporary audio file.
C4_InvalidUrlRaisesBeforeAnyWork ==
    (gtState # "notcalled" /\ url \in InvalidUrls)
        => /\ nRemote = 0
           /\ nDownload = 0
           /\ nWhisper = 0
           /\ ~created
           /\ gtEvents = <<>>
           /\ sumState = "notcalled"
           /\ (pc # "gt_fetch" => gtState = "raised" /\ raised = "ValueError")

\* C4 case: a call with an invalid URL has ended with ValueError
C4_Witness ==
    /\ url \in InvalidUrls
    /\ gtState = "raised"
    /\ raised = "ValueError"

(* ------------------------------- C5 ------------------------------------ *)

\* C5: for a valid identifier, every failure of the hosted transcript
\* service makes get_transcript_youtube return None, and get_transcript
\* goes on to the local fallback: the fallback event is emitted and
\* download_audio is called; an error can only come from the fallback.
C5_RemoteFailureFallsBack ==
    (remoteOutcome \in RemoteFailures)
        => /\ fetched = None
           /\ raised \notin RemoteFailures
           /\ \/ pc = "gt_branch"
              \/ /\ Occurs(MsgFallback, shown)
                 /\ (pc = "gt_download" \/ nDownload = 1)
           /\ (gtState = "raised" => nDownload = 1)

\* C5 case: the service failed with a network error and download_audio ran
C5_Witness ==
    /\ remoteOutcome = "NetworkError"
    /\ fetched = None
    /\ nDownload = 1

(* ------------------------------- C6 ------------------------------------ *)

\* the orders in which get_transcript may have delivered its events so far
GtEventOrders ==
    { <<>>, <<MsgRemote>>, <<MsgFallback>>, <<MsgFallback, MsgLocal>> }

\* the orders in which summarize_text may have delivered its events so far
SumEventOrders ==
    { <<>>, <<MsgModel>>, <<MsgModel, MsgFormatting>>,
      <<MsgModel, MsgFormatting, MsgComplete>> }

\* this step delivers the event m to the callback
Delivers(m) == shown' = Append(shown, m)

\* C6 as stated, first-event part: every call of get_transcript that has
\* ended emitted 'remote transcript obtained' or 'remote unavailable,
\* falling back' as its first event.
C6_EveryCallEmitsRemoteEventFirst ==
    GtEnded => (gtEvents # <<>> /\ gtEvents[1] \in {MsgRemote, MsgFallback})

\* C6 amended: events reach the callback only while the emitting call is
\* running and in pipeline order.  A call of get_transcript whose URL yields
\* a video identifier emits exactly one of the two remote events, as its
\* first event; a call whose URL is invalid emits no event.  'local
\* transcript obtained' comes only after the fallback event, after both
\* local steps succeeded and with the temporary file deleted; 'Summary
\* complete' comes only after 'Summarizing' and 'Formatting', in that order.
C6_EventsInPipelineOrder ==
    /\ [](/\ gtEvents \in GtEventOrders
          /\ sumEvents \in SumEventOrders
          /\ (GtEnded /\ raised # "ValueError") => gtEvents # <<>>
          /\ raised = "ValueError" => gtEvents = <<>>
          /\ Occurs(MsgLocal, shown)
                => /\ nDownload = 1
                   /\ nWhisper = 1
                   /\ raised \notin {"RetrievalError", "TranscriptionError"}
                   /\ transcript # None
                   /\ ~fileExists)
    /\ [][/\ \A m \in {MsgRemote, MsgFallback, MsgLocal} :
               Delivers(m) => gtState = "running"
          /\ \A m \in {MsgModel, MsgFormatting, MsgComplete} :
               Delivers(m) => sumState = "running"]_vars

\* C6 case: the local path succeeded and summarize_text completed
C6_Witness ==
    /\ gtEvents = <<MsgFallback, MsgLocal>>
    /\ sumEvents = <<MsgModel, MsgFormatting, MsgComplete>>

(* ------------------------------- C7 ------------------------------------ *)

\* the lines of a returned summary: the heading line, then the bullet lines
OutputLines(out) ==
    LET ls == SplitOn(out, "\n") IN SubSeq(ls, 1, Len(ls) - 1)

\* the sentence text of each bullet line, without the bullet marker
BulletTexts(out) ==
    LET ls == OutputLines(out)
    IN  [k \in 1..(Len(ls) - 1) |-> SubSeq(ls[k+1], 3, Len(ls[k+1]))]

\* C7: the string summarize_text returns starts with the heading line, and
\* the sentence text of every bullet line, as emitted, has strictly more
\* than 7 whitespace-separated words.
C7_HeadingAndLongBullets ==
    (summary # None)
        => /\ OutputLines(summary)[1] = Heading \o <<":">>
           /\ \A k \in 1..Len(BulletTexts(summary)) :
                 WordCount(BulletTexts(summary)[k]) > 7

(* ------------------------------- C8 ------------------------------------ *)

\* the summarization model has been run over the chunks
ModelRan == full_summary # None

\* C8 as stated: for every text shorter than the chunk size, the empty text
\* included, summarize_text makes exactly one chunk and hands the model
\* exactly one input.
C8_ShortTextOneChunk ==
    (ModelRan /\ Len(transcript) < max_chunk)
        => (Len(chunks) = 1 /\ nModel = 1)

\* C8 amended: for every non-empty text shorter than the chunk size,
\* summarize_text makes exactly one chunk, the text itself, and hands the
\* model exactly one input; for the empty text it makes no chunk and hands
\* the model no input.
C8_NonEmptyShortTextOneChunk ==
    /\ (ModelRan /\ 0 < Len(transcript) /\ Len(transcript) < max_chunk)
          => (chunks = <<transcript>> /\ nModel = 1)
    /\ (ModelRan /\ Len(transcript) = 0)
          => (chunks = <<>> /\ nModel = 0)

\* C8 case: a text one character shorter than the chunk size was summarized
C8_Witness ==
    /\ ModelRan
    /\ Len(transcript) = max_chunk - 1
    /\ nModel = 1

(* ------------------------------- C9 ------------------------------------ *)

\* the positions of s where a period is followed by a space and an
\* uppercase letter
Boundaries(s) ==
    { i \in 1..Len(s) :
        i + 2 <= Len(s) /\ s[i] = "." /\ s[i+1] = " " /\ s[i+2] \in Upper }

\* the elements of a set of numbers in increasing order
RECURSIVE Ascending(_)
Ascending(S) ==
    IF S = {} THEN <<>>
    ELSE LET m == CHOOSE x \in S : \A y \in S : x <= y
         IN  <<m>> \o Ascending(S \ {m})

\* the candidate sentences of s: the pieces between boundaries, trimmed
Candidates(s) ==
    LET cs == Ascending(Boundaries(s))
    IN  [k \in 1..(Len(cs) + 1) |->
            Strip(SubSeq(s,
                         IF k = 1 THEN 1 ELSE cs[k-1] + 2,
                         IF k = Len(cs) + 1 THEN Len(s) ELSE cs[k] - 1))]

\* the candidates that are non-empty and have more than 7 words, in order
Survivors(s) ==
    SelectSeq(Candidates(s), LAMBDA c : c # <<>> /\ WordCount(c) > 7)

\* a sentence without the periods at its ends
Unpunctuated(c) == StripChars(c, {"."})

====
